---- MODULE Spec2Model ----
\* Model of bloom/generators/vcpkg/generator.py: the text formatter
\* (vcpkgize_string, format_description), the dependency flattener
\* (format_depends), and the vcpkg generator (get_subs_hook, generate_tag_name,
\* generate_package).  Strings are sequences of one-character strings.
EXTENDS Integers, Sequences, FiniteSets, TLC

VARIABLES
    \* text formatter
    raw, value, again, description, tpc,
    \* dependency flattener
    depends, resolved_deps, formatted, di, ri, dpc,
    \* generator
    build_type, release_url, subs, subs_in, index_queried, changelogs,
    releaser_history, steps, pc

textVars == <<raw, value, again, description, tpc>>
depVars == <<depends, resolved_deps, formatted, di, ri, dpc>>
genVars == <<build_type, release_url, subs, subs_in, index_queried, changelogs,
             releaser_history, steps, pc>>
vars == <<textVars, depVars, genVars>>

----------------------------------------------------------------------------
\* Bounds

MaxLen == 4
MaxDeps == 2
MaxResolved == 2
MaxPathSegs == 2

\* All sequences over S of length at most n.
SeqsUpTo(S, n) == UNION {[1..k -> S] : k \in 0..n}

----------------------------------------------------------------------------
\* Python string primitives

\* str.strip() / re \s: the whitespace characters
IsSpace(c) == c \in {" ", "\t", "\n", "\r", "\f"}

\* s[i:] for a 1-based i
From(s, i) == SubSeq(s, i, Len(s))

\* sub occurs in s starting at 1-based position i
MatchAt(s, sub, i) ==
    /\ i + Len(sub) - 1 <= Len(s)
    /\ \A k \in 1..Len(sub) : s[i + k - 1] = sub[k]

\* str.find: first 1-based position >= i where sub occurs in s, 0 if none
RECURSIVE FindFrom(_, _, _)
FindFrom(s, sub, i) ==
    IF i + Len(sub) - 1 > Len(s) THEN 0
    ELSE IF MatchAt(s, sub, i) THEN i
    ELSE FindFrom(s, sub, i + 1)

\* Python "sub in s"
Contains(s, sub) == FindFrom(s, sub, 1) # 0

\* str.strip()
RECURSIVE LStrip(_)
LStrip(s) == IF s # <<>> /\ IsSpace(Head(s)) THEN LStrip(Tail(s)) ELSE s

RECURSIVE RStrip(_)
RStrip(s) ==
    IF s # <<>> /\ IsSpace(s[Len(s)]) THEN RStrip(SubSeq(s, 1, Len(s) - 1)) ELSE s

Strip(s) == RStrip(LStrip(s))

\* str.split(sep): every piece between occurrences of sep, left to right
RECURSIVE Split(_, _)
Split(s, sep) ==
    LET p == FindFrom(s, sep, 1)
    IN  IF p = 0 THEN <<s>>
        ELSE <<SubSeq(s, 1, p - 1)>> \o Split(From(s, p + Len(sep)), sep)

\* str.split(sep, 1): at most one split, at the first occurrence of sep
Split1(s, sep) ==
    LET p == FindFrom(s, sep, 1)
    IN  IF p = 0 THEN <<s>>
        ELSE <<SubSeq(s, 1, p - 1), From(s, p + Len(sep))>>

----------------------------------------------------------------------------
\* vcpkgize_string

\* The end of a match of '<.*?>' whose '<' is at j - 1: the first '>' at or
\* after j that is reached without crossing a newline ('.' matches anything
\* but '\n'); 0 if there is none.
RECURSIVE FindClose(_, _)
FindClose(s, j) ==
    IF j > Len(s) THEN 0
    ELSE IF s[j] = ">" THEN j
    ELSE IF s[j] = "\n" THEN 0
    ELSE FindClose(s, j + 1)

\* markup_remover.sub('', value): leftmost non-overlapping matches are removed
RECURSIVE RemoveMarkup(_, _)
RemoveMarkup(s, i) ==
    IF i > Len(s) THEN <<>>
    ELSE IF s[i] = "<" /\ FindClose(s, i + 1) # 0
         THEN RemoveMarkup(s, FindClose(s, i + 1) + 1)
         ELSE <<s[i]>> \o RemoveMarkup(s, i + 1)

\* re.sub('\s+', ' ', value)
RECURSIVE CollapseSpace(_, _)
CollapseSpace(s, i) ==
    IF i > Len(s) THEN <<>>
    ELSE IF IsSpace(s[i])
         THEN IF i > 1 /\ IsSpace(s[i - 1])
              THEN CollapseSpace(s, i + 1)
              ELSE <<" ">> \o CollapseSpace(s, i + 1)
         ELSE <<s[i]>> \o CollapseSpace(s, i + 1)

vcpkgize_string(s) == Strip(CollapseSpace(RemoveMarkup(s, 1), 1))

----------------------------------------------------------------------------
\* format_description

PeriodSpace == <<".", " ">>

\* A slip of format_description: the split point is any period.
format_description_any_period(s) ==
    LET v == vcpkgize_string(s)
        parts == Split1(v, <<".">>)
    IN  IF Len(parts) = 1 \/ Len(parts[2]) = 0 THEN v
        ELSE parts[1] \o <<".", "\n", " ">> \o Strip(parts[2])

format_description(s) ==
    LET v == vcpkgize_string(s)
        parts == Split1(v, PeriodSpace)
    IN  IF Len(parts) = 1 \/ Len(parts[2]) = 0 THEN v
        ELSE parts[1] \o <<".", "\n", " ">> \o Strip(parts[2])

----------------------------------------------------------------------------
\* Text formatter: a description goes through vcpkgize_string (once, and
\* once more on its own output) and through format_description.

Chars == {"<", ">", "\n", "\t", " ", ".", "a"}

TextIdle ==
    /\ raw = <<>> /\ value = <<>> /\ again = <<>> /\ description = <<>>
    /\ tpc = "off"

TextInit ==
    /\ raw \in SeqsUpTo(Chars, MaxLen)
    /\ value = <<>> /\ again = <<>> /\ description = <<>>
    /\ tpc = "input"

Vcpkgize ==
    /\ tpc = "input"
    /\ value' = vcpkgize_string(raw)
    /\ tpc' = "normalized"
    /\ UNCHANGED <<raw, again, description>>
    /\ UNCHANGED <<depVars, genVars>>

VcpkgizeAgain ==
    /\ tpc = "normalized"
    /\ again' = vcpkgize_string(value)
    /\ tpc' = "renormalized"
    /\ UNCHANGED <<raw, value, description>>
    /\ UNCHANGED <<depVars, genVars>>

FormatDescription ==
    /\ tpc = "renormalized"
    /\ description' = format_description(raw)
    /\ tpc' = "formatted"
    /\ UNCHANGED <<raw, value, again>>
    /\ UNCHANGED <<depVars, genVars>>

----------------------------------------------------------------------------
\* format_depends: the two nested loops, one appended name per step.

DepNames == {"A", "B"}
ResolvedNames == {"x", "y"}

DepsIdle ==
    /\ depends = <<>> /\ resolved_deps = <<>> /\ formatted = <<>>
    /\ di = 0 /\ ri = 0 /\ dpc = "off"

\* resolved_deps is a dict: some dependency names have an entry, the others
\* have none.
DepsInit ==
    /\ depends \in SeqsUpTo(DepNames, MaxDeps)
    /\ \E keys \in SUBSET DepNames :
           resolved_deps \in [keys -> SeqsUpTo(ResolvedNames, MaxResolved)]
    /\ formatted = <<>>
    /\ di = 1 /\ ri = 1
    /\ dpc = "loop"

\* A slip of the inner loop body: a name already listed is not listed again.
AppendResolvedOnce ==
    /\ dpc = "loop"
    /\ di <= Len(depends)
    /\ depends[di] \in DOMAIN resolved_deps
    /\ ri <= Len(resolved_deps[depends[di]])
    /\ formatted' =
           IF \E k \in 1..Len(formatted) :
                  formatted[k] = resolved_deps[depends[di]][ri]
           THEN formatted
           ELSE Append(formatted, resolved_deps[depends[di]][ri])
    /\ ri' = ri + 1
    /\ UNCHANGED <<depends, resolved_deps, di, dpc>>
    /\ UNCHANGED <<textVars, genVars>>

\* formatted.append(resolved_dep)
AppendResolved ==
    /\ dpc = "loop"
    /\ di <= Len(depends)
    /\ depends[di] \in DOMAIN resolved_deps
    /\ ri <= Len(resolved_deps[depends[di]])
    /\ formatted' = Append(formatted, resolved_deps[depends[di]][ri])
    /\ ri' = ri + 1
    /\ UNCHANGED <<depends, resolved_deps, di, dpc>>
    /\ UNCHANGED <<textVars, genVars>>

\* the inner loop is exhausted: the outer loop takes the next dependency
NextDepend ==
    /\ dpc = "loop"
    /\ di <= Len(depends)
    /\ depends[di] \in DOMAIN resolved_deps
    /\ ri > Len(resolved_deps[depends[di]])
    /\ di' = di + 1
    /\ ri' = 1
    /\ UNCHANGED <<depends, resolved_deps, formatted, dpc>>
    /\ UNCHANGED <<textVars, genVars>>

\* resolved_deps[d.name] with no such key
DependKeyError ==
    /\ dpc = "loop"
    /\ di <= Len(depends)
    /\ depends[di] \notin DOMAIN resolved_deps
    /\ dpc' = "KeyError"
    /\ UNCHANGED <<depends, resolved_deps, formatted, di, ri>>
    /\ UNCHANGED <<textVars, genVars>>

\* return formatted
ReturnFormatted ==
    /\ dpc = "loop"
    /\ di > Len(depends)
    /\ dpc' = "returned"
    /\ UNCHANGED <<depends, resolved_deps, formatted, di, ri>>
    /\ UNCHANGED <<textVars, genVars>>

----------------------------------------------------------------------------
\* VcpkgGenerator: constants and inputs

\* VcpkgGenerator.package_manager = 'vcpkg'
package_manager == <<"v", "c", "p", "k", "g">>

\* vcpkg_support_git_sources = ["github", "gitlab", "bitbucket"]
vcpkg_support_git_sources ==
    << <<"g", "i", "t", "h", "u", "b">>,
       <<"g", "i", "t", "l", "a", "b">>,
       <<"b", "i", "t", "b", "u", "c", "k", "e", "t">> >>

ament_cmake == "ament_cmake"
BuildTypes == {"ament_cmake", "cmake", "catkin"}

Slash == <<"/">>
DotGit == <<".", "g", "i", "t">>

\* Release URLs the index may hold: an optional scheme, a host, and up to
\* MaxPathSegs path segments.
Schemes == {<<>>, <<"h", "t", "t", "p", "s", ":", "/", "/">>}
Hosts ==
    { <<"g", "i", "t", "h", "u", "b", ".", "c", "o", "m">>,
      <<"b", "i", "t", "b", "u", "c", "k", "e", "t", ".", "o", "r", "g">>,
      <<"e", "x", "a", "m", "p", "l", "e", ".", "o", "r", "g">> }
PathSegs ==
    { <<"a", "c", "m", "e">>,
      <<"w", ".", "g", "i", "t">>,
      <<"m", "y", ".", "g", "i", "t", "h", "u", "b", "-", "t", "o", "o", "l", "s">>,
      <<"g", "i", "t", "l", "a", "b">> }

RECURSIVE JoinPath(_)
JoinPath(segs) ==
    IF segs = <<>> THEN <<>> ELSE Slash \o Head(segs) \o JoinPath(Tail(segs))

ReleaseUrls ==
    {sc \o h \o JoinPath(p) :
        sc \in Schemes, h \in Hosts, p \in SeqsUpTo(PathSegs, MaxPathSegs)}

\* The substitutions get_subs holds when it calls the hook: the fields of
\* the tag template, of which Inc may be missing.
TagFields == {"Package", "Version", "Inc", "Distribution"}
HookFields == {"git_source", "user_name", "repo_name", "tag_name"}
Packages == {<<"w">>, <<"p", "_", "1">>}
Versions == {<<"1", ".", "2", ".", "0">>, <<"0", ".", "1">>}
Incs == {<<"0">>, <<"1">>}
Distributions == {<<"h", "u", "m", "b", "l", "e">>}

BaseSubs ==
    { [f \in TagFields |->
          CASE f = "Package" -> p
            [] f = "Version" -> v
            [] f = "Inc" -> i
            [] f = "Distribution" -> d] :
        p \in Packages, v \in Versions, i \in Incs, d \in Distributions }
    \cup
    { [f \in TagFields \ {"Inc"} |->
          CASE f = "Package" -> p
            [] f = "Version" -> v
            [] f = "Distribution" -> d] :
        p \in Packages, v \in Versions, d \in Distributions }

\* subs['changelogs'] reduced to its (version, releaser name) pairs
ChangelogLists ==
    { <<>>,
      << <<"1.0", "ann">>, <<"1.1", "bob">> >>,
      << <<"1.0", "ann">>, <<"1.0", "bob">> >> }

\* subs[key] = val
SetItem(s, key, val) == (key :> val) @@ s

\* dict(pairs): the last pair of a key wins
RECURSIVE DictOf(_)
DictOf(pairs) ==
    IF pairs = <<>> THEN <<>>
    ELSE LET last == pairs[Len(pairs)]
         IN  (last[1] :> last[2]) @@ DictOf(SubSeq(pairs, 1, Len(pairs) - 1))

----------------------------------------------------------------------------
\* get_subs_hook

\* The for loop without its break: the last matching source is kept.
RECURSIVE last_match(_, _)
last_match(url, i) ==
    IF i > Len(vcpkg_support_git_sources) THEN 0
    ELSE LET later == last_match(url, i + 1)
         IN  IF later # 0 THEN later
             ELSE IF Contains(url, vcpkg_support_git_sources[i]) THEN i
             ELSE 0

\* for git_source in vcpkg_support_git_sources: ... break ... else: the index
\* of the source the loop breaks at, from i on; 0 when the else branch runs
RECURSIVE first_match(_, _)
first_match(url, i) ==
    IF i > Len(vcpkg_support_git_sources) THEN 0
    ELSE IF Contains(url, vcpkg_support_git_sources[i]) THEN i
    ELSE first_match(url, i + 1)

\* subs["repo_name"] after lines 181-183
repo_name_of(last) ==
    IF Contains(last, DotGit) THEN SubSeq(last, 1, Len(last) - 4) ELSE last

\* The template with its fields in the wrong places.
generate_tag_name_swapped(s) ==
    package_manager \o Slash \o s["Package"] \o <<"_">> \o s["Inc"]
        \o <<"-">> \o s["Version"] \o <<"_">> \o s["Distribution"]

\* '{Package}_{Version}-{Inc}_{Distribution}'.format(**subs)
generate_tag_name(s) ==
    package_manager \o Slash \o s["Package"] \o <<"_">> \o s["Version"]
        \o <<"-">> \o s["Inc"] \o <<"_">> \o s["Distribution"]

GenIdle ==
    /\ build_type = "" /\ release_url = <<>> /\ subs = <<>> /\ subs_in = <<>>
    /\ index_queried = FALSE /\ changelogs = <<>> /\ releaser_history = <<>>
    /\ steps = <<>> /\ pc = "off"

\* generate_package is entered for a package of some build type
GenInit ==
    /\ build_type \in BuildTypes
    /\ release_url = <<>> /\ subs = <<>> /\ subs_in = <<>>
    /\ index_queried = FALSE /\ changelogs = <<>> /\ releaser_history = <<>>
    /\ steps = <<>> /\ pc = "get_subs"

\* self.get_subs(...) up to its call of get_subs_hook
GetSubs ==
    /\ pc = "get_subs"
    /\ \E s \in BaseSubs : subs' = s /\ subs_in' = s
    /\ changelogs' \in ChangelogLists
    /\ pc' = "hook_build_type"
    /\ UNCHANGED <<build_type, release_url, index_queried, releaser_history, steps>>
    /\ UNCHANGED <<textVars, depVars>>

\* A slip of the build type test: the error is reported without exit=True.
CheckBuildTypeNoExit ==
    /\ pc = "hook_build_type"
    /\ pc' = "hook_index"
    /\ UNCHANGED <<build_type, release_url, subs, subs_in, index_queried,
                   changelogs, releaser_history, steps>>
    /\ UNCHANGED <<textVars, depVars>>

\* if build_type != "ament_cmake": error(..., exit=True)
CheckBuildType ==
    /\ pc = "hook_build_type"
    /\ pc' = IF build_type # ament_cmake THEN "exit_build_type" ELSE "hook_index"
    /\ UNCHANGED <<build_type, release_url, subs, subs_in, index_queried,
                   changelogs, releaser_history, steps>>
    /\ UNCHANGED <<textVars, depVars>>

\* rosdistro.get_index ... repo.release_repository.url
QueryIndex ==
    /\ pc = "hook_index"
    /\ index_queried' = TRUE
    /\ release_url' \in ReleaseUrls
    /\ pc' = "hook_git_source"
    /\ UNCHANGED <<build_type, subs, subs_in, changelogs, releaser_history, steps>>
    /\ UNCHANGED <<textVars, depVars>>

\* the distribution or the package is not in the index: the lookup raises
QueryIndexFails ==
    /\ pc = "hook_index"
    /\ index_queried' = TRUE
    /\ pc' = "LookupError"
    /\ UNCHANGED <<build_type, release_url, subs, subs_in, changelogs,
                   releaser_history, steps>>
    /\ UNCHANGED <<textVars, depVars>>

\* A slip of the source loop: git_source is set to the url's host name before
\* the allow-list is looked at.
MatchGitSourceEager ==
    /\ pc = "hook_git_source"
    /\ LET m == first_match(release_url, 1)
       IN  /\ subs' = SetItem(subs, "git_source",
                   IF m # 0 THEN vcpkg_support_git_sources[m] ELSE release_url)
           /\ pc' = IF m # 0 THEN "hook_split" ELSE "exit_release_url"
    /\ UNCHANGED <<build_type, release_url, subs_in, index_queried, changelogs,
                   releaser_history, steps>>
    /\ UNCHANGED <<textVars, depVars>>

\* the for/else over vcpkg_support_git_sources
MatchGitSource ==
    /\ pc = "hook_git_source"
    /\ LET m == first_match(release_url, 1)
       IN  IF m # 0
           THEN /\ subs' = SetItem(subs, "git_source", vcpkg_support_git_sources[m])
                /\ pc' = "hook_split"
           ELSE /\ subs' = subs
                /\ pc' = "exit_release_url"
    /\ UNCHANGED <<build_type, release_url, subs_in, index_queried, changelogs,
                   releaser_history, steps>>
    /\ UNCHANGED <<textVars, depVars>>

\* subs["user_name"], subs["repo_name"] from release_url.split('/')
SplitUrl ==
    /\ pc = "hook_split"
    /\ LET segs == Split(release_url, Slash)
       IN  IF Len(segs) < 2
           THEN /\ subs' = subs
                /\ pc' = "IndexError"
           ELSE /\ subs' = SetItem(SetItem(subs, "user_name", segs[Len(segs) - 1]),
                                   "repo_name", repo_name_of(segs[Len(segs)]))
                /\ pc' = "hook_tag"
    /\ UNCHANGED <<build_type, release_url, subs_in, index_queried, changelogs,
                   releaser_history, steps>>
    /\ UNCHANGED <<textVars, depVars>>

\* subs['tag_name'] = VcpkgGenerator.generate_tag_name(subs); return subs
SetTagName ==
    /\ pc = "hook_tag"
    /\ IF TagFields \subseteq DOMAIN subs
       THEN /\ subs' = SetItem(subs, "tag_name", generate_tag_name(subs))
            /\ pc' = "hook_returned"
       ELSE /\ subs' = subs
            /\ pc' = "KeyError"
    /\ UNCHANGED <<build_type, release_url, subs_in, index_queried, changelogs,
                   releaser_history, steps>>
    /\ UNCHANGED <<textVars, depVars>>

----------------------------------------------------------------------------
\* generate_package after get_subs

\* An external step (process_template_files, execute_command) runs once and
\* either succeeds, and control goes on to next, or raises.
ExternalStep(step, next) ==
    \E ok \in BOOLEAN :
        /\ steps' = Append(steps, <<step, ok>>)
        /\ pc' = IF ok THEN next ELSE "ExternalError"

\* self.set_releaser_history(dict(releaser_history))
SetReleaserHistory ==
    /\ pc = "hook_returned"
    /\ releaser_history' = DictOf(changelogs)
    /\ pc' = "render"
    /\ UNCHANGED <<build_type, release_url, subs, subs_in, index_queried,
                   changelogs, steps>>
    /\ UNCHANGED <<textVars, depVars>>

\* template_files = process_template_files(".", subs, self.package_manager)
ProcessTemplateFiles ==
    /\ pc = "render"
    /\ ExternalStep("render", "git_rm")
    /\ UNCHANGED <<build_type, release_url, subs, subs_in, index_queried,
                   changelogs, releaser_history>>
    /\ UNCHANGED <<textVars, depVars>>

\* A slip of the remove step: its failure is ignored.
GitRmUnchecked ==
    /\ pc = "git_rm"
    /\ \E ok \in BOOLEAN : steps' = Append(steps, <<"rm", ok>>)
    /\ pc' = "git_add"
    /\ UNCHANGED <<build_type, release_url, subs, subs_in, index_queried,
                   changelogs, releaser_history>>
    /\ UNCHANGED <<textVars, depVars>>

\* execute_command('git rm -rf ' + ...)
GitRm ==
    /\ pc = "git_rm"
    /\ ExternalStep("rm", "git_add")
    /\ UNCHANGED <<build_type, release_url, subs, subs_in, index_queried,
                   changelogs, releaser_history>>
    /\ UNCHANGED <<textVars, depVars>>

\* execute_command('git add {0}'.format(self.package_manager))
GitAdd ==
    /\ pc = "git_add"
    /\ ExternalStep("add", "git_commit")
    /\ UNCHANGED <<build_type, release_url, subs, subs_in, index_queried,
                   changelogs, releaser_history>>
    /\ UNCHANGED <<textVars, depVars>>

\* execute_command('git commit -m ...')
GitCommit ==
    /\ pc = "git_commit"
    /\ ExternalStep("commit", "return")
    /\ UNCHANGED <<build_type, release_url, subs, subs_in, index_queried,
                   changelogs, releaser_history>>
    /\ UNCHANGED <<textVars, depVars>>

\* return subs
ReturnSubs ==
    /\ pc = "return"
    /\ pc' = "returned"
    /\ UNCHANGED <<build_type, release_url, subs, subs_in, index_queried,
                   changelogs, releaser_history, steps>>
    /\ UNCHANGED <<textVars, depVars>>

----------------------------------------------------------------------------
\* Specifications

\* the generator: one generate_package invocation
Init == GenInit /\ TextIdle /\ DepsIdle
Next ==
    \/ GetSubs
    \/ CheckBuildType
    \/ QueryIndex
    \/ QueryIndexFails
    \/ MatchGitSource
    \/ SplitUrl
    \/ SetTagName
    \/ SetReleaserHistory
    \/ ProcessTemplateFiles
    \/ GitRm
    \/ GitAdd
    \/ GitCommit
    \/ ReturnSubs
Spec == Init /\ [][Next]_vars

\* the text formatter on every description up to MaxLen characters
InitText == TextInit /\ DepsIdle /\ GenIdle
NextText ==
    \/ Vcpkgize
    \/ VcpkgizeAgain
    \/ FormatDescription
SpecText == InitText /\ [][NextText]_vars

\* format_depends on every input up to MaxDeps dependencies
InitDeps == DepsInit /\ TextIdle /\ GenIdle
NextDeps ==
    \/ AppendResolved
    \/ NextDepend
    \/ DependKeyError
    \/ ReturnFormatted
SpecDeps == InitDeps /\ [][NextDeps]_vars

----------------------------------------------------------------------------
\* Properties

\* the hook has returned subs to get_subs
HookReturned ==
    pc \in {"hook_returned", "render", "git_rm", "git_add", "git_commit",
            "return", "returned", "ExternalError"}

\* s ends with suffix
EndsWith(s, suffix) ==
    /\ Len(s) >= Len(suffix)
    /\ SubSeq(s, Len(s) - Len(suffix) + 1, Len(s)) = suffix

\* The number of '/'-delimited path segments of a url: the pieces after the
\* host, which follows the "scheme://" when there is one.
PathSegCount(url) ==
    LET segs == Split(url, Slash)
    IN  IF Len(segs) >= 2 /\ EndsWith(segs[1], <<":">>) /\ segs[2] = <<>>
        THEN Len(segs) - 3
        ELSE Len(segs) - 1

\* the url contains none of the supported git sources
NoSupportedSource(url) ==
    \A i \in 1..Len(vcpkg_support_git_sources) :
        ~Contains(url, vcpkg_support_git_sources[i])

\* C1: vcpkgize_string is idempotent: applied to its own output it returns
\* that output, for every input string.
C1_Idempotent ==
    tpc \in {"renormalized", "formatted"} => again = value

\* C2 as stated: for every raw description with no period-space in it,
\* format_description returns what vcpkgize_string returns.
C2_RawWithoutPeriodSpace ==
    (tpc = "formatted" /\ ~Contains(raw, PeriodSpace)) => description = value

\* C2 amended: for every raw description whose vcpkgize_string output has no
\* period-space in it, format_description returns that output.
C2_NormalizedWithoutPeriodSpace ==
    (tpc = "formatted" /\ ~Contains(value, PeriodSpace)) => description = value

\* a description with markup or extra whitespace and a period that is not
\* followed by a space once normalized, formatted
C2_Witness ==
    /\ tpc = "formatted"
    /\ Contains(value, <<".">>)
    /\ ~Contains(value, PeriodSpace)
    /\ raw # value
    /\ Len(value) >= 2

\* C3: repo_name is the last '/'-separated segment of the release url, with
\* its last 4 characters removed if and only if that segment ends with ".git".
C3_SuffixOnly ==
    "repo_name" \in DOMAIN subs =>
        LET segs == Split(release_url, Slash)
            last == segs[Len(segs)]
        IN  subs["repo_name"] =
                IF EndsWith(last, DotGit)
                THEN SubSeq(last, 1, Len(last) - 4)
                ELSE last

\* C4: when the hook returns, git_source is the first entry of the ordered
\* list of supported sources that occurs in the release url.
C4_FirstMatchWins ==
    HookReturned =>
        /\ "git_source" \in DOMAIN subs
        /\ \E i \in 1..Len(vcpkg_support_git_sources) :
               /\ subs["git_source"] = vcpkg_support_git_sources[i]
               /\ Contains(release_url, vcpkg_support_git_sources[i])
               /\ \A j \in 1..(i - 1) :
                      ~Contains(release_url, vcpkg_support_git_sources[j])

\* the hook returned for a url that holds all three sources, "bitbucket"
\* before "github" in the url
C4_Witness ==
    /\ HookReturned
    /\ \A i \in 1..3 : Contains(release_url, vcpkg_support_git_sources[i])
    /\ FindFrom(release_url, vcpkg_support_git_sources[3], 1)
           < FindFrom(release_url, vcpkg_support_git_sources[1], 1)
    /\ subs["git_source"] = vcpkg_support_git_sources[1]

\* C5: with a release url that holds none of the supported sources, the hook
\* goes from the source test to the fatal error only, writes none of
\* git_source, user_name, repo_name, tag_name, and no render or git step runs.
C5_UnsupportedUrlExits ==
    (release_url # <<>> /\ NoSupportedSource(release_url)) =>
        /\ pc \in {"hook_git_source", "exit_release_url"}
        /\ DOMAIN subs \cap HookFields = {}
        /\ steps = <<>>

\* the hook has exited on an unsupported release url
C5_Witness ==
    /\ pc = "exit_release_url"
    /\ NoSupportedSource(release_url)
    /\ PathSegCount(release_url) = 2

\* C6: user_name and repo_name are never taken from a release url with fewer
\* than two path segments: the hook fails on such a url.
C6_MalformedUrlRejected ==
    ("user_name" \in DOMAIN subs \/ "repo_name" \in DOMAIN subs) =>
        PathSegCount(release_url) >= 2

\* The lists resolved[d] of the dependencies ds, one after the other.
RECURSIVE ConcatResolved(_, _)
ConcatResolved(ds, resolved) ==
    IF ds = <<>> THEN <<>>
    ELSE resolved[Head(ds)] \o ConcatResolved(Tail(ds), resolved)

\* C7: format_depends returns the concatenation, in the order of depends, of
\* the resolved lists of the dependencies, duplicates kept; when every
\* dependency has an entry it does not fail.
C7_Concatenation ==
    /\ dpc = "returned" => formatted = ConcatResolved(depends, resolved_deps)
    /\ (\A k \in 1..Len(depends) : depends[k] \in DOMAIN resolved_deps)
           => dpc # "KeyError"

\* two different dependencies, three names or more returned, one of them twice
C7_Witness ==
    /\ dpc = "returned"
    /\ Len(depends) >= 2
    /\ depends[1] # depends[2]
    /\ Len(formatted) >= 3
    /\ \E a, b \in 1..Len(formatted) : a # b /\ formatted[a] = formatted[b]
    /\ \E a, b \in 1..Len(formatted) : formatted[a] # formatted[b]

\* C8: when the hook returns, tag_name is "vcpkg/" Package "_" Version "-" Inc
\* "_" Distribution of the returned map, whose four fields are those the hook
\* was given.
C8_TagNameOfReturnedFields ==
    HookReturned =>
        /\ TagFields \cup {"tag_name"} \subseteq DOMAIN subs
        /\ subs["tag_name"] =
               <<"v", "c", "p", "k", "g", "/">>
                   \o subs["Package"] \o <<"_">> \o subs["Version"] \o <<"-">>
                   \o subs["Inc"] \o <<"_">> \o subs["Distribution"]
        /\ \A f \in TagFields : subs[f] = subs_in[f]

\* the hook has just returned the tag name vcpkg/p_1_0.1-1_humble
C8_Witness ==
    /\ pc = "hook_returned"
    /\ subs["tag_name"] = <<"v", "c", "p", "k", "g", "/", "p", "_", "1", "_", "0", ".", "1", "-", "1", "_", "h", "u", "m", "b", "l", "e">>

StepOrder == <<"render", "rm", "add", "commit">>

\* C9: the steps run are a prefix of render, rm, add, commit, each once; every
\* step but the last one run succeeded; after a failed step the invocation is
\* over; it returns only after four successful steps.
C9_StepsInOrderUntilFailure ==
    /\ Len(steps) <= Len(StepOrder)
    /\ \A k \in 1..Len(steps) :
           /\ steps[k][1] = StepOrder[k]
           /\ k < Len(steps) => steps[k][2]
    /\ (steps # <<>> /\ ~steps[Len(steps)][2]) => pc = "ExternalError"
    /\ pc \in {"return", "returned"} =>
           (Len(steps) = 4 /\ \A k \in 1..4 : steps[k][2])

\* git add failed after render and git rm succeeded: no commit is issued
C9_Witness ==
    /\ pc = "ExternalError"
    /\ Len(steps) = 3
    /\ steps[3] = <<"add", FALSE>>

\* C10: for a build type other than ament_cmake the hook goes from its build
\* type test to the fatal error only; the index is not queried and none of
\* git_source, user_name, repo_name, tag_name is written.
C10_BuildTypeCheckedFirst ==
    build_type # ament_cmake =>
        /\ pc \in {"get_subs", "hook_build_type", "exit_build_type"}
        /\ ~index_queried
        /\ DOMAIN subs \cap HookFields = {}

\* the hook has exited on a build type that is not ament_cmake
C10_Witness ==
    /\ pc = "exit_build_type"
    /\ build_type = "cmake"

====
